---- MODULE Spec2Model ----
(***************************************************************************)
(* LUMEN GENESIS: image -> soil points -> creature population -> per-tick  *)
(* simulation.  The module models the mutable state held in stateRef, the  *)
(* React state that is synced into it, and the handlers that change them.  *)
(*                                                                         *)
(* Numbers.  JavaScript numbers are modelled as exact rationals <<n, d>>   *)
(* in lowest terms with d > 0 (floating-point rounding is not modelled).   *)
(* Math.random() is modelled as a counter-based generator: the k-th draw   *)
(* of a handler run is Rand(seed, k) / RandMod, the seed being chosen      *)
(* nondeterministically per run.                                           *)
(***************************************************************************)
EXTENDS Integers, Sequences, FiniteSets, TLC

(***************************************************************************)
(* Bounds of the model.                                                    *)
(***************************************************************************)
RandMod == 64        \* resolution of a Math.random() draw: k / RandMod
MaxSeed == 1         \* seeds 0..MaxSeed of the random stream of one handler run
MaxFrame == 2        \* draw ticks modelled: p.frameCount in 0..MaxFrame
MaxLoads == 2        \* image decodes that may be in flight or delivered
SimStartFrame == 100 \* growth scene on its own: the frame of the generation,
SimElapsed == 100    \* the frames drawn since with the pointer at rest,
SimFrames == 3       \* and the frames followed from there

(***************************************************************************)
(* Rational arithmetic.                                                    *)
(***************************************************************************)
RECURSIVE GCD(_, _)
GCD(a, b) == IF b = 0 THEN a ELSE GCD(b, a % b)

Abs(x) == IF x < 0 THEN -x ELSE x

Min(a, b) == IF a < b THEN a ELSE b

Max(a, b) == IF a > b THEN a ELSE b

\* F(v), with v evaluated once before F is applied (TLC evaluates operator
\* arguments and LET definitions by need, once per use)
Bind(v, F(_)) == CHOOSE r \in {F(x) : x \in {v}} : TRUE

\* n/d in lowest terms, d # 0
Q(n, d) ==
    LET g == GCD(Abs(n), Abs(d))
        s == IF d < 0 THEN -1 ELSE 1
    IN  <<(s * n) \div g, (s * d) \div g>>

I(n) == <<n, 1>>

Add(a, b) ==
    LET g == GCD(a[2], b[2])
    IN  Q(a[1] * (b[2] \div g) + b[1] * (a[2] \div g), (a[2] \div g) * b[2])

Neg(a) == <<-a[1], a[2]>>

Sub(a, b) == Add(a, Neg(b))

Mul(a, b) ==
    LET g1 == GCD(Abs(a[1]), b[2])
        g2 == GCD(Abs(b[1]), a[2])
    IN  Q((a[1] \div g1) * (b[1] \div g2), (a[2] \div g2) * (b[2] \div g1))

\* a / b, b # 0
Div(a, b) == Mul(a, Q(b[2], b[1]))

Less(a, b) ==
    LET g == GCD(a[2], b[2])
    IN  a[1] * (b[2] \div g) < b[1] * (a[2] \div g)

Leq(a, b) == ~Less(b, a)

\* Math.floor
Floor(a) == a[1] \div a[2]

\* x % 1 for x >= 0
Frac(a) == Q(a[1] % a[2], a[2])

RMin(a, b) == IF Less(a, b) THEN a ELSE b

RMax(a, b) == IF Less(a, b) THEN b ELSE a

\* p.constrain(v, lo, hi)
constrain(v, lo, hi) == RMax(RMin(v, hi), lo)

\* lerp(start, stop, amt) = amt * (stop - start) + start
\* variant: the two ends exchanged
lerpFromStop(start, stop, amt) == Add(stop, Mul(Sub(start, stop), amt))

lerp(start, stop, amt) == Add(Mul(amt, Sub(stop, start)), start)

\* mapRange(v, i1, i2, o1, o2) = o1 + (o2 - o1) * ((v - i1) / (i2 - i1))
mapRange(v, i1, i2, o1, o2) ==
    Add(o1, Mul(Sub(o2, o1), Div(Sub(v, i1), Sub(i2, i1))))

(***************************************************************************)
(* Math.random(): the k-th draw of the stream with the given seed, as an   *)
(* integer in 0..RandMod-1 (the draw is Rand / RandMod, in [0, 1)).        *)
(***************************************************************************)
Rand(seed, k) == ((k * k * 3 + k * (seed * 37 + 11) + seed * 101 + 7) % 2039) % RandMod

random(seed, k) == Q(Rand(seed, k), RandMod)

Seeds == 0..MaxSeed

(***************************************************************************)
(* Program constants.                                                      *)
(***************************************************************************)
CanvasW == 900               \* p.createCanvas(900, 600, p.WEBGL)
CanvasH == 600
DefaultThreshold == 100      \* useState<SoilSettings> initial value
DefaultDotSize == 8
DefaultSpacing == 4
DefaultMaxPoints == 2000
MinSoilPoints == 50          \* dark-image fallback: fewer than 50 points
FallbackPoints == 120        \* ... adds 120 synthetic points
minPlants == 30              \* setupCreatures
maxPlants == 160
GrowthFrames == 200          \* drawGrowthScene: elapsed / 200

(***************************************************************************)
(* Bitmaps.  A bitmap is [width, height, pat]: its pixels are given by a   *)
(* pattern, so that a 720-pixel-wide bitmap is one small value.            *)
(***************************************************************************)
NoImage == [width |-> -1, height |-> -1, pat |-> "none"]

Patterns == {"black", "white", "ramp", "sparse", "amber", "grey200"}

\* <<r, g, b>> of pixel (x, y)
Pixel(g, x, y) ==
    CASE g.pat = "black"  -> <<0, 0, 0>>
      [] g.pat = "white"  -> <<255, 255, 255>>
      [] g.pat = "ramp"   -> LET v == (x \div 2 + 5 * y) % 256 IN <<v, v, v>>
      [] g.pat = "sparse" -> IF x % 48 = 0 THEN <<255, 255, 255>> ELSE <<0, 0, 0>>
      [] g.pat = "amber"  -> <<200, 100, 50>>
      [] g.pat = "grey200" -> <<200, 200, 200>>

\* bright = r * 0.299 + g * 0.587 + b * 0.114
Bright(g, x, y) ==
    LET p == Pixel(g, x, y) IN Q(299 * p[1] + 587 * p[2] + 114 * p[3], 1000)

\* normalized = (bright - threshold) / (range || 1), range = 255 - threshold
Normalized(bright, threshold) ==
    LET range == 255 - threshold
    IN  Div(Sub(bright, I(threshold)), I(IF range = 0 THEN 1 ELSE range))

\* variant: a pixel as bright as the threshold passes too
BrighterOrEqual(bright, threshold) == Leq(I(threshold), bright)

\* if (bright > settings.threshold)
Brighter(bright, threshold) == Less(I(threshold), bright)

\* number of values of  for (v = 0; v < len; v += step)
GridCount(len, step) == IF len <= 0 THEN 0 ELSE (len + step - 1) \div step

\* the k-th cell <<x, y>> of the row-major scan (y outer, x inner)
ScanCell(g, step, k) ==
    LET cols == GridCount(g.width, step)
    IN  <<((k - 1) % cols) * step, ((k - 1) \div cols) * step>>

\* the cells of the scan whose luminance exceeds the threshold, in scan order
ScanHits(g, step, threshold) ==
    LET N == GridCount(g.width, step) * GridCount(g.height, step)
        Hit(k) == LET c == ScanCell(g, step, k)
                  IN  Brighter(Bright(g, c[1], c[2]), threshold)
    IN  SelectSeq([k \in 1..N |-> k], Hit)

\* the soil points pushed by the scan loop; the m-th push draws z
ScanPoints(g, settings, seed) ==
    LET step == Max(1, settings.spacing)
        Point(m, k) ==
            LET c == ScanCell(g, step, k)
                bright == Bright(g, c[1], c[2])
            IN  [x |-> Q(2 * c[1] - g.width, 2),
                 y |-> Q(2 * c[2] - g.height, 2),
                 z |-> Sub(Mul(random(seed, m), I(6)), I(3)),
                 b |-> bright,
                 n |-> Normalized(bright, settings.threshold)]
    IN  Bind(ScanHits(g, step, settings.threshold),
             LAMBDA hits : [m \in 1..Len(hits) |-> Point(m, hits[m])])

\* sum of pts[lo..hi].n
RECURSIVE SumN(_, _, _)
SumN(pts, lo, hi) ==
    IF hi < lo THEN I(0)
    ELSE IF hi = lo THEN pts[lo].n
    ELSE LET mid == (lo + hi) \div 2
         IN  Add(SumN(pts, lo, mid), SumN(pts, mid + 1, hi))

\* variant: the exchange writes one side only
SwapOneSided(s, a, b) == [s EXCEPT ![a] = s[b]]

Swap(s, a, b) == [s EXCEPT ![a] = s[b], ![b] = s[a]]

(***************************************************************************)
(* Fisher-Yates:  for (i = n - 1; i > 0; i--) { j = floor(random() *       *)
(* (i + 1)); swap(s[i], s[j]) }  with 0-based i, j; the step for i takes   *)
(* draw number base + (n - i).  ShuffleRange runs the steps hi, ..., lo,   *)
(* the upper half first.                                                   *)
(***************************************************************************)
ShuffleStep(s, i, seed, base) ==
    LET j == Floor(Mul(random(seed, base + (Len(s) - i)), I(i + 1)))
    IN  Swap(s, i + 1, j + 1)

RECURSIVE ShuffleRange(_, _, _, _, _)
ShuffleRange(s, hi, lo, seed, base) ==
    IF hi < lo THEN s
    ELSE IF hi = lo THEN ShuffleStep(s, hi, seed, base)
    ELSE LET mid == (lo + hi) \div 2
         IN  Bind(ShuffleRange(s, hi, mid + 1, seed, base),
                  LAMBDA f : ShuffleRange(f, mid, lo, seed, base))

Shuffle(s, seed, base) == ShuffleRange(s, Len(s) - 1, 1, seed, base)

\* variant: no subsampling
SubsampleOff(scan, maxPoints, seed) == scan

\* if (soilPoints.length > maxPoints) { shuffle; soilPoints = soilPoints.slice(0, maxPoints) }
Subsample(scan, maxPoints, seed) ==
    IF Len(scan) > maxPoints
    THEN SubSeq(Shuffle(scan, seed, Len(scan)), 1, maxPoints)
    ELSE scan

\* variant: the synthetic points get a noise height like the scanned ones
FallbackSoilNoisy(imgW, imgH, seed, base) ==
    [i \in 1..FallbackPoints |->
        [x |-> Mul(Sub(random(seed, base + 2 * i - 1), Q(1, 2)), imgW),
         y |-> Mul(Sub(random(seed, base + 2 * i), Q(1, 2)), imgH),
         z |-> Sub(Mul(random(seed, base + i), I(6)), I(3)),
         b |-> I(255),
         n |-> I(1)]]

\* the 120 synthetic points of the dark-image fallback
FallbackSoil(imgW, imgH, seed, base) ==
    [i \in 1..FallbackPoints |->
        [x |-> Mul(Sub(random(seed, base + 2 * i - 1), Q(1, 2)), imgW),
         y |-> Mul(Sub(random(seed, base + 2 * i), Q(1, 2)), imgH),
         z |-> I(0),
         b |-> I(255),
         n |-> I(1)]]

(***************************************************************************)
(* The soil part of generateDigitalSoil after the early return: scan,      *)
(* subsample to maxPoints, dark-image fallback, behaviour profile.         *)
(* scanned/kept/draws record the lengths after the scan and after the      *)
(* subsampling, and the number of random draws taken.                      *)
(***************************************************************************)
SoilOf(g, imgW, imgH, settings, seed) ==
    LET Behavior(avgN) ==
            [densityFactor |-> mapRange(I(settings.spacing), I(2), I(20), Q(13, 10), Q(1, 2)),
             heightFactor |-> Mul(mapRange(I(settings.dotSize), I(2), I(20), Q(7, 10), Q(16, 10)),
                                  mapRange(I(settings.threshold), I(0), I(255), Q(8, 10), Q(125, 100))),
             thicknessFactor |-> mapRange(I(settings.dotSize), I(2), I(20), Q(7, 10), Q(16, 10)),
             growthSpeed |-> mapRange(I(settings.threshold), I(0), I(255), Q(8, 10), Q(125, 100)),
             avgBrightness |-> avgN]
        Finish(scan, sub) ==
            LET M == Len(scan)
                brightnessSum == SumN(scan, 1, M)
                d1 == IF M > settings.maxPoints THEN M + (M - 1) ELSE M
                dark == Len(sub) < MinSoilPoints
                len == IF dark THEN Len(sub) + FallbackPoints ELSE Len(sub)
                avgN == IF len > 0 THEN Div(brightnessSum, I(len)) ELSE Q(1, 2)
            IN  [soilPoints |-> IF dark THEN sub \o FallbackSoil(imgW, imgH, seed, d1) ELSE sub,
                 soilBehavior |-> Behavior(avgN),
                 scanned |-> M,
                 kept |-> Len(sub),
                 draws |-> IF dark THEN d1 + 2 * FallbackPoints ELSE d1]
    IN  Bind(ScanPoints(g, settings, seed),
             LAMBDA scan : Bind(Subsample(scan, settings.maxPoints, seed),
                                LAMBDA sub : Finish(scan, sub)))

(***************************************************************************)
(* Creatures.  A creature is a record of the fields of class Creature plus *)
(* the structural data of its variant (kind).  heightBase and radiusBase   *)
(* are products whose exact value can exceed 32-bit integers; they are     *)
(* kept as the pair <<a, b>> of their two factors (the value is a * b).    *)
(***************************************************************************)
Species == {"torus", "mobius", "knot", "hopf"}

PI == Q(355, 113)            \* Math.PI, as a rational

Times(a, b) == <<a, b>>

DrawsPerCreature == 21       \* draws reserved per constructor call (at most 1 + 4 * 5)

\* constructor of class Creature; draw 1 is hueOffset
Creature(kind, x, y, z, params, seed, d) ==
    [kind |-> kind,
     baseX |-> x, baseY |-> y, baseZ |-> z,
     strength |-> params.strength,
     heightBase |-> Times(I(100), I(1)),
     radiusBase |-> Times(I(10), I(1)),
     thickness |-> I(1),
     growth |-> I(0), wind |-> I(0), contraction |-> I(0), verticalInf |-> I(0),
     time |-> I(0),
     hueOffset |-> Mul(Sub(random(seed, d + 1), Q(1, 2)), I(30))]

NeonTorus(x, y, z, params, seed, d) ==
    LET c == Creature("NeonTorus", x, y, z, params, seed, d)
    IN  [c EXCEPT !.heightBase = Times(lerp(I(80), I(160), c.strength), params.heightFactor),
                  !.radiusBase = Times(lerp(I(12), I(24), c.strength), params.thicknessFactor)]
        @@ [rings |-> Floor(lerp(I(3), I(8), c.strength))]

FluxRibbon(x, y, z, params, seed, d) ==
    LET c == Creature("FluxRibbon", x, y, z, params, seed, d)
    IN  [c EXCEPT !.heightBase = Times(lerp(I(70), I(150), c.strength), params.heightFactor),
                  !.radiusBase = Times(lerp(I(8), I(16), c.strength), params.thicknessFactor)]
        @@ [particles |->
                [i \in 1..3 |->
                    [offset |-> Mul(Mul(random(seed, d + 2 * i), PI), I(2)),
                     speed  |-> Add(I(1), random(seed, d + 2 * i + 1))]]]

TensorCore(x, y, z, params, seed, d) ==
    LET c == Creature("TensorCore", x, y, z, params, seed, d)
        count == Floor(lerp(I(2), I(4), c.strength))
    IN  [c EXCEPT !.heightBase = Times(lerp(I(60), I(110), c.strength), params.heightFactor),
                  !.radiusBase = Times(lerp(I(10), I(20), c.strength), params.thicknessFactor)]
        @@ [orbitals |->
                [i \in 1..count |->
                    LET e == d + 1 + 5 * (i - 1)
                    IN  [axisX |-> random(seed, e + 1),
                         axisY |-> random(seed, e + 2),
                         axisZ |-> random(seed, e + 3),
                         speed |-> Mul(Add(random(seed, e + 4), Q(1, 2)),
                                       IF Less(Q(1, 2), random(seed, e + 5))
                                       THEN I(1) ELSE I(-1))]]]

PrismSpire(x, y, z, params, seed, d) ==
    LET c == Creature("PrismSpire", x, y, z, params, seed, d)
    IN  [c EXCEPT !.heightBase = Times(lerp(I(80), I(160), c.strength), params.heightFactor),
                  !.radiusBase = Times(lerp(I(8), I(15), c.strength), params.thicknessFactor)]
        @@ [segments |-> Floor(lerp(I(4), I(9), c.strength)),
            rotationOffset |-> Mul(random(seed, d + 2), Mul(PI, I(2)))]

\* variant: time runs on from the stored time
UpdateAccumulating(c, growth, wind, contraction, verticalInf, frame) ==
    [c EXCEPT !.growth = growth,
              !.wind = wind,
              !.contraction = contraction,
              !.verticalInf = verticalInf,
              !.time = Add(c.time, Mul(I(frame), Q(3, 100)))]

\* Creature.update
Update(c, growth, wind, contraction, verticalInf, frame) ==
    [c EXCEPT !.growth = growth,
              !.wind = wind,
              !.contraction = contraction,
              !.verticalInf = verticalInf,
              !.time = Mul(I(frame), Q(3, 100))]

(***************************************************************************)
(* setupCreatures.                                                         *)
(***************************************************************************)
\* variant: baseCount is not rounded down
PlantCountUnrounded(n, behavior) ==
    Floor(Mul(mapRange(I(n), I(50), I(1200), I(minPlants), I(maxPlants)),
              behavior.densityFactor))

\* const plantCount = Math.floor(baseCount * behavior.densityFactor), with
\* baseCount = Math.floor(mapRange(points.length, 50, 1200, minPlants, maxPlants))
PlantCount(n, behavior) ==
    LET baseCount == Floor(mapRange(I(n), I(50), I(1200), I(minPlants), I(maxPlants)))
    IN  Floor(Mul(I(baseCount), behavior.densityFactor))

\* the shuffled index array (0-based indices, as in the code)
ShuffledIndices(n, seed, base) == Shuffle([i \in 1..n |-> i - 1], seed, base)

\* variant: every species is spawned as the first variant
SpawnFirstVariant(p, behavior, species, seed, d) ==
    LET strength == p.n
        params == [strength |-> strength,
                   heightFactor |-> Mul(lerp(Q(8, 10), Q(15, 10), strength), behavior.heightFactor),
                   thicknessFactor |-> Mul(lerp(Q(8, 10), Q(14, 10), strength), behavior.thicknessFactor)]
    IN  NeonTorus(p.x, Mul(p.z, Q(15, 10)), p.y, params, seed, d)

\* the creature spawned for soil point p
Spawn(p, behavior, species, seed, d) ==
    LET strength == p.n
        params == [strength |-> strength,
                   heightFactor |-> Mul(lerp(Q(8, 10), Q(15, 10), strength), behavior.heightFactor),
                   thicknessFactor |-> Mul(lerp(Q(8, 10), Q(14, 10), strength), behavior.thicknessFactor)]
        x3d == p.x
        z3d == p.y
        y3d == Mul(p.z, Q(15, 10))
    IN  CASE species = "torus"  -> NeonTorus(x3d, y3d, z3d, params, seed, d)
          [] species = "mobius" -> FluxRibbon(x3d, y3d, z3d, params, seed, d)
          [] species = "knot"   -> TensorCore(x3d, y3d, z3d, params, seed, d)
          [] OTHER              -> PrismSpire(x3d, y3d, z3d, params, seed, d)

\* the new creature array and the indices it was built from
SetupCreatures(points, behavior, species, seed, base) ==
    LET n == Len(points)
        useCount == Min(PlantCount(n, behavior), n)
        d0 == base + n
    IN  Bind(ShuffledIndices(n, seed, base),
             LAMBDA indices :
                [creatures |->
                    [i \in 1..Max(0, useCount) |->
                        Spawn(points[indices[i] + 1], behavior, species, seed,
                              d0 + (i - 1) * DrawsPerCreature)],
                 used |-> SubSeq(indices, 1, Max(0, useCount))])

(***************************************************************************)
(* Image load (handleFileSelect's loadImage callback) and preview.         *)
(***************************************************************************)
PreviewCap == 4000           \* recomputePreviewDots: at most 4000 dots

\* s = Math.min(900 / w, 600 / h) * 0.8
FitScale(file) == Mul(RMin(Q(CanvasW, file.w), Q(CanvasH, file.h)), Q(8, 10))

\* state.sourceG = p.createGraphics(Math.floor(imgW), Math.floor(imgH))
SourceOf(file) ==
    [width  |-> Floor(Mul(I(file.w), FitScale(file))),
     height |-> Floor(Mul(I(file.h), FitScale(file))),
     pat    |-> file.pat]

\* sum of the luminance of the sampled pixels lo..hi (every 4th pixel of the buffer)
RECURSIVE SampleSum(_, _, _)
SampleSum(g, lo, hi) ==
    IF hi < lo THEN I(0)
    ELSE IF hi = lo
         THEN Bright(g, (4 * lo) % g.width, (4 * lo) \div g.width)
         ELSE LET mid == (lo + hi) \div 2
              IN  Add(SampleSum(g, lo, mid), SampleSum(g, mid + 1, hi))

\* smartThreshold = Math.floor(avgBrightness * 0.7)
SmartThreshold(g) ==
    LET npix == Max(0, g.width) * Max(0, g.height)
        count == (npix + 3) \div 4
        avgBrightness == IF count > 0
                         THEN Div(SampleSum(g, 0, count - 1), I(count))
                         ELSE I(128)
    IN  Floor(Mul(avgBrightness, Q(7, 10)))

\* variant: every dot of the scan is kept
PreviewOfUncapped(g, settings) ==
    LET step == Max(1, settings.spacing)
        N == GridCount(g.width, step) * GridCount(g.height, step)
        Radius(k) ==
            LET c == ScanCell(g, step, k)
            IN  Mul(Normalized(Bright(g, c[1], c[2]), settings.threshold), I(settings.dotSize))
        Keep(k) ==
            LET c == ScanCell(g, step, k)
            IN  /\ Brighter(Bright(g, c[1], c[2]), settings.threshold)
                /\ Less(Q(3, 10), Radius(k))
        Dot(k) ==
            LET c == ScanCell(g, step, k)
            IN  [x |-> Q(2 * c[1] - g.width, 2), y |-> Q(2 * c[2] - g.height, 2), size |-> Radius(k)]
    IN  IF g.width <= 0 \/ g.height <= 0
        THEN <<>>
        ELSE Bind(SelectSeq([k \in 1..N |-> k], Keep),
                  LAMBDA kept : [m \in 1..Len(kept) |-> Dot(kept[m])])

\* the dots recomputePreviewDots leaves in state.previewDots
PreviewOf(g, settings) ==
    LET step == Max(1, settings.spacing)
        N == GridCount(g.width, step) * GridCount(g.height, step)
        Radius(k) ==
            LET c == ScanCell(g, step, k)
            IN  Mul(Normalized(Bright(g, c[1], c[2]), settings.threshold), I(settings.dotSize))
        Keep(k) ==
            LET c == ScanCell(g, step, k)
            IN  /\ Brighter(Bright(g, c[1], c[2]), settings.threshold)
                /\ Less(Q(3, 10), Radius(k))
        Dot(k) ==
            LET c == ScanCell(g, step, k)
            IN  [x |-> Q(2 * c[1] - g.width, 2), y |-> Q(2 * c[2] - g.height, 2), size |-> Radius(k)]
    IN  IF g.width <= 0 \/ g.height <= 0
        THEN <<>>
        ELSE Bind(SelectSeq([k \in 1..N |-> k], Keep),
                  LAMBDA kept : [m \in 1..Min(Len(kept), PreviewCap) |-> Dot(kept[m])])

(***************************************************************************)
(* State.                                                                  *)
(***************************************************************************)
VARIABLES
    \* React state, and the commits whose effects have not run yet (oldest first)
    scene, soilSettings, currentSpecies, effects,
    \* stateRef.current
    stScene, settings, sourceG, imgW, imgH, previewDots, previewDirty,
    soilPoints, creatures, soilBehavior, growthStartFrame, growthProgress,
    soilBreathPhase,
    wind, windTarget, verticalInfluence, contraction,
    worldRotation, worldRotationStart, worldZoom,
    position, isDragging, dragStart, scrollTwist,
    handPos, handReady, isFist,
    \* environment: p5 frame counter and mouse, image decodes in flight
    frameCount, mouseX, mouseY, loads, loadsStarted,
    \* history: number of soil generations, what the last generation scanned
    \* and kept, and the generation and point indices of the last spawn
    soilGen, genInfo, spawn

imgVars == <<sourceG, imgW, imgH>>
soilVars == <<soilPoints, soilBehavior, growthStartFrame, soilGen, genInfo>>
popVars == <<creatures, spawn>>
previewVars == <<previewDots, previewDirty>>
windVars == <<wind, windTarget, verticalInfluence, contraction>>
rotVars == <<worldRotation, worldRotationStart>>
dragVars == <<isDragging, dragStart>>
handVars == <<handPos, handReady, isFist>>
mouseVars == <<mouseX, mouseY>>
loadVars == <<loads, loadsStarted>>
tickVars == <<frameCount, position, soilBreathPhase, scrollTwist, growthProgress>>
\* what only the draw tick and the input handlers change
liveVars == <<windVars, rotVars, dragVars, worldZoom, handVars, mouseVars, tickVars>>
vars == <<scene, soilSettings, currentSpecies, effects, stScene, settings,
          imgVars, soilVars, popVars, previewVars, loadVars, liveVars>>

\* handPos: null (no fraction has denominator 0)
NoHand == [x |-> <<0, 0>>, y |-> <<0, 0>>]

DefaultSettings ==
    [threshold |-> DefaultThreshold, dotSize |-> DefaultDotSize,
     spacing |-> DefaultSpacing, shape |-> "dot", maxPoints |-> DefaultMaxPoints]

DefaultBehavior ==
    [densityFactor |-> I(1), heightFactor |-> I(1), thicknessFactor |-> I(1),
     growthSpeed |-> I(1), avgBrightness |-> I(0)]

\* the React state, the image and the decodes in flight after construction
InitShell ==
    /\ scene = 0
    /\ soilSettings = DefaultSettings
    /\ currentSpecies = "torus"
    /\ effects = <<>>
    /\ stScene = 0
    /\ settings = DefaultSettings
    /\ sourceG = NoImage
    /\ imgW = I(0)
    /\ imgH = I(0)
    /\ previewDots = <<>>
    /\ previewDirty = TRUE
    /\ loads = {}
    /\ loadsStarted = 0

\* soil and population after construction
InitSoil ==
    /\ soilPoints = <<>>
    /\ creatures = <<>>
    /\ soilBehavior = DefaultBehavior
    /\ growthStartFrame = 0
    /\ growthProgress = I(0)
    /\ soilGen = 0
    /\ genInfo = [scanned |-> 0, kept |-> 0]
    /\ spawn = [gen |-> 0, used |-> <<>>]

\* interaction state after construction, the pointer aside
InitInteraction ==
    /\ soilBreathPhase = I(0)
    /\ wind = I(0)
    /\ windTarget = I(0)
    /\ verticalInfluence = I(0)
    /\ contraction = I(0)
    /\ worldRotation = [x |-> Q(-6, 10), y |-> I(0)]
    /\ worldRotationStart = [x |-> Q(-6, 10), y |-> I(0)]
    /\ worldZoom = I(1)
    /\ position = [x |-> I(0), y |-> I(0)]
    /\ isDragging = FALSE
    /\ dragStart = [x |-> 0, y |-> 0]
    /\ scrollTwist = I(0)
    /\ handPos = NoHand
    /\ handReady = FALSE
    /\ isFist = FALSE
    /\ frameCount = 0

\* interaction state after construction: p5 reports the pointer at (0, 0)
\* until it first moves over the canvas
InitLive ==
    /\ InitInteraction
    /\ mouseX = 0
    /\ mouseY = 0

\* the state after construction and the mount effects
Init == InitShell /\ InitSoil /\ InitLive

(***************************************************************************)
(* What the JSX renders (from the React state of the last commit).         *)
(***************************************************************************)
\* {scene === 1 && !stateRef.current.img && ...}: the upload panel
UploadPanel == scene = 1 /\ sourceG = NoImage /\ effects = <<>>

\* {scene === 1 && stateRef.current.img && ...}: sliders and the Generate button
ConfigPanel == scene = 1 /\ sourceG # NoImage /\ effects = <<>>

\* {scene === 3 && ...}: the species selector
SpeciesSelector == scene = 3 /\ effects = <<>>

(***************************************************************************)
(* Handlers of the UI shell.  A handler that sets React state causes a     *)
(* commit; the commit's effects run later, with the values of that commit. *)
(* A panel takes input once the effects of the commit that rendered it     *)
(* have run; timer and decode callbacks (draw ticks, image loads, hand     *)
(* predictions) can come before.                                           *)
(***************************************************************************)
\* the commit that renders (sc, ss, sp), with the dependencies that changed
Commit(deps, sc, ss, sp) ==
    [deps |-> deps, scene |-> sc, soilSettings |-> ss, currentSpecies |-> sp]

\* intro screen onClick: setScene(1)
EnterClick ==
    /\ scene = 0
    /\ effects = <<>>
    /\ scene' = 1
    /\ effects' = <<Commit({"scene"}, 1, soilSettings, currentSpecies)>>
    /\ UNCHANGED <<soilSettings, currentSpecies, stScene, settings, imgVars, soilVars,
                   popVars, previewVars, loadVars, liveVars>>

\* handleFileSelect: starts the decode of the chosen file
HandleFileSelect(file) ==
    /\ UploadPanel
    /\ loads' = loads \cup {[id |-> loadsStarted + 1, file |-> file]}
    /\ loadsStarted' = loadsStarted + 1
    /\ UNCHANGED <<scene, soilSettings, currentSpecies, effects, stScene, settings,
                   imgVars, soilVars, popVars, previewVars, liveVars>>

\* the p.loadImage callback of handleFileSelect
ImageLoaded(l) ==
    /\ l \in loads
    /\ loads' = loads \ {l}
    /\ sourceG' = SourceOf(l.file)
    /\ imgW' = Mul(I(l.file.w), FitScale(l.file))
    /\ imgH' = Mul(I(l.file.h), FitScale(l.file))
    /\ soilSettings' = [soilSettings EXCEPT !.threshold = SmartThreshold(SourceOf(l.file))]
    /\ previewDirty' = TRUE
    /\ scene' = 1
    /\ effects' = Append(effects,
                         Commit({"soilSettings"} \cup (IF scene # 1 THEN {"scene"} ELSE {}),
                                1, soilSettings', currentSpecies))
    /\ UNCHANGED <<currentSpecies, stScene, settings, soilVars, popVars, previewDots,
                   loadsStarted, liveVars>>

\* a slider's onChange: setSoilSettings({...soilSettings, [field]: v})
SetSoilSettings(field, v) ==
    /\ ConfigPanel
    /\ soilSettings' = [soilSettings EXCEPT ![field] = v]
    /\ effects' = <<Commit({"soilSettings"}, scene, soilSettings', currentSpecies)>>
    /\ UNCHANGED <<scene, currentSpecies, stScene, settings, imgVars, soilVars, popVars,
                   previewVars, loadVars, liveVars>>

\* a species button's onClick: setCurrentSpecies(s)
SetCurrentSpecies(s) ==
    /\ SpeciesSelector
    /\ s # currentSpecies
    /\ currentSpecies' = s
    /\ effects' = <<Commit({"currentSpecies"}, scene, soilSettings, s)>>
    /\ UNCHANGED <<scene, soilSettings, stScene, settings, imgVars, soilVars, popVars,
                   previewVars, loadVars, liveVars>>

\* variant: the new creatures are added to the population
PopulateAppend(old, fresh) == old \o fresh

\* stateRef.current.creatures = creatures, at the end of setupCreatures
Populate(old, fresh) == fresh

\* generateDigitalSoil
GenerateDigitalSoil(seed) ==
    IF sourceG = NoImage
    THEN /\ soilPoints' = <<>>
         /\ UNCHANGED <<scene, soilSettings, currentSpecies, effects, stScene, settings,
                        imgVars, soilBehavior, growthStartFrame, soilGen, genInfo, popVars,
                        previewVars, loadVars, liveVars>>
    ELSE LET soil == SoilOf(sourceG, imgW, imgH, settings, seed)
         IN  \E o \in {soil} :
             \E pop \in {SetupCreatures(o.soilPoints, o.soilBehavior, currentSpecies,
                                        seed, o.draws)} :
                /\ soilPoints' = o.soilPoints
                /\ soilBehavior' = o.soilBehavior
                /\ soilGen' = soilGen + 1
                /\ genInfo' = [scanned |-> o.scanned, kept |-> o.kept]
                /\ scene' = 3
                /\ effects' = IF scene # 3
                              THEN Append(effects,
                                          Commit({"scene"}, 3, soilSettings, currentSpecies))
                              ELSE effects
                /\ growthStartFrame' = frameCount
                /\ growthProgress' = I(0)
                /\ creatures' = Populate(creatures, pop.creatures)
                /\ spawn' = [gen |-> soilGen + 1, used |-> pop.used]
                /\ UNCHANGED <<soilSettings, currentSpecies, stScene, settings, imgVars,
                               previewVars, loadVars, windVars, rotVars, dragVars,
                               worldZoom, handVars, mouseVars, frameCount, position,
                               soilBreathPhase, scrollTwist>>

(***************************************************************************)
(* The effects of the oldest commit, in the order of their declaration:    *)
(*   [scene]                  stateRef.current.scene = scene               *)
(*   [soilSettings]           settings = soilSettings; previewDirty = true *)
(*   [currentSpecies, scene]  if (scene === 3) setupCreatures(...)         *)
(***************************************************************************)
RunEffects(seed) ==
    /\ effects # <<>>
    /\ LET c == Head(effects)
       IN  /\ stScene' = IF "scene" \in c.deps THEN c.scene ELSE stScene
           /\ IF "soilSettings" \in c.deps
              THEN settings' = c.soilSettings /\ previewDirty' = TRUE
              ELSE UNCHANGED <<settings, previewDirty>>
           /\ IF c.scene = 3 /\ c.deps \cap {"scene", "currentSpecies"} # {}
              THEN \E pop \in {SetupCreatures(soilPoints, soilBehavior, c.currentSpecies,
                                              seed, 0)} :
                       /\ creatures' = Populate(creatures, pop.creatures)
                       /\ spawn' = [gen |-> soilGen, used |-> pop.used]
              ELSE UNCHANGED popVars
    /\ effects' = Tail(effects)
    /\ UNCHANGED <<scene, soilSettings, currentSpecies, imgVars, soilVars, previewDots,
                   loadVars, liveVars>>

\* the Generate button's onClick
GenerateClick(seed) == ConfigPanel /\ GenerateDigitalSoil(seed)

(***************************************************************************)
(* display.  The draw calls a display issues, in order.  A draw call is    *)
(* recorded as its kind, its loop index and the values its arguments are   *)
(* computed from: the creature's fields (from), and for a FluxRibbon       *)
(* particle its position t along the ribbon.  pFrameCount is p.frameCount  *)
(* of the renderer at the time of the call.                                *)
(***************************************************************************)
Ceil(a) == -Floor(Neg(a))

NotYetGrown(c) == Leq(c.growth, Q(1, 100))

DisplayNeonTorus(c, pFrameCount) ==
    IF NotYetGrown(c) THEN <<>>
    ELSE [k \in 1..c.rings |-> [call |-> "ellipse", i |-> k - 1, from |-> c]]

\* t = (p.frameCount * 0.01 * pt.speed + pt.offset) % 1
ParticleT(pt, pFrameCount) ==
    Frac(Add(Mul(Mul(I(pFrameCount), Q(1, 100)), pt.speed), pt.offset))

DisplayFluxRibbon(c, pFrameCount) ==
    IF NotYetGrown(c) THEN <<>>
    ELSE LET steps == 30
             visible == Floor(Mul(I(steps), c.growth))
             ribbon(offset) ==
                [k \in 1..(visible + 1) |->
                    [call |-> "vertex2", offset |-> offset, i |-> k - 1, from |-> c]]
             shown == SelectSeq(<<1, 2, 3>>,
                        LAMBDA k : ~Less(c.growth, ParticleT(c.particles[k], pFrameCount)))
             points == [m \in 1..Len(shown) |->
                          [call |-> "point",
                           t |-> ParticleT(c.particles[shown[m]], pFrameCount),
                           from |-> c]]
         IN  ribbon(0) \o ribbon(1) \o points

DisplayTensorCore(c, pFrameCount) ==
    IF NotYetGrown(c) THEN <<>>
    ELSE <<[call |-> "sphere", from |-> c]>>
         \o [k \in 1..Len(c.orbitals) |-> [call |-> "orbit", i |-> k - 1, from |-> c]]
         \o <<[call |-> "line", from |-> c]>>

DisplayPrismSpire(c, pFrameCount) ==
    IF NotYetGrown(c) THEN <<>>
    ELSE [k \in 1..Ceil(Mul(I(c.segments), c.growth)) |->
            [call |-> IF (k - 1) % 2 = 0 THEN "pyramid" ELSE "box",
             i |-> k - 1, line |-> k - 1 > 0, from |-> c]]

Display(c, pFrameCount) ==
    CASE c.kind = "NeonTorus"  -> DisplayNeonTorus(c, pFrameCount)
      [] c.kind = "FluxRibbon" -> DisplayFluxRibbon(c, pFrameCount)
      [] c.kind = "TensorCore" -> DisplayTensorCore(c, pFrameCount)
      [] c.kind = "PrismSpire" -> DisplayPrismSpire(c, pFrameCount)

(***************************************************************************)
(* The draw tick.                                                          *)
(***************************************************************************)
\* p.map(v, start1, stop1, start2, stop2)
pmap(v, start1, stop1, start2, stop2) ==
    Add(Mul(Div(Sub(v, start1), Sub(stop1, start1)), Sub(stop2, start2)), start2)

halfW == Q(CanvasW, 2)

halfH == Q(CanvasH, 2)

\* posVec of p.draw
PosVec ==
    IF handReady /\ handPos # NoHand
    THEN handPos
    ELSE [x |-> Sub(I(mouseX), halfW), y |-> Sub(I(mouseY), halfH)]

\* the targets of the interaction mapping for pointer position pos
WindTargetOf(pos) == Mul(pmap(pos.x, Neg(halfW), halfW, I(-1), I(1)), I(1))

VerticalTargetOf(pos) == constrain(pmap(pos.y, Neg(halfH), halfH, I(1), I(0)), I(0), I(1))

ContractionTarget == IF isFist THEN I(1) ELSE I(0)

WindAmt == Q(5, 100)

SlowAmt == Q(1, 10)

\* the growth fraction without the constrain of line 287
GrowthOfUnclamped(frame, startFrame, behavior) ==
    LET elapsed == frame - startFrame
        speed == IF behavior.growthSpeed = I(0) THEN I(1) ELSE behavior.growthSpeed
    IN  Mul(Q(elapsed, GrowthFrames), speed)

\* const g = p.constrain((elapsed / 200) * speed, 0, 1)
GrowthOf(frame, startFrame, behavior) ==
    LET elapsed == frame - startFrame
        speed == IF behavior.growthSpeed = I(0) THEN I(1) ELSE behavior.growthSpeed
    IN  constrain(Mul(Q(elapsed, GrowthFrames), speed), I(0), I(1))

\* drawSoilConfigScene clearing previewDirty without the call of line 217
DrawSoilConfigSceneStale ==
    /\ IF sourceG # NoImage /\ previewDirty
       THEN /\ previewDots' = previewDots
            /\ previewDirty' = FALSE
       ELSE UNCHANGED previewVars
    /\ UNCHANGED <<windVars, rotVars, scrollTwist, growthProgress, creatures>>

\* drawSoilConfigScene (its drawing aside)
DrawSoilConfigScene ==
    /\ IF sourceG # NoImage /\ previewDirty
       THEN /\ previewDots' = PreviewOf(sourceG, settings)
            /\ previewDirty' = FALSE
       ELSE UNCHANGED previewVars
    /\ UNCHANGED <<windVars, rotVars, scrollTwist, growthProgress, creatures>>

\* drawGrowthScene (its drawing aside)
DrawGrowthScene ==
    /\ growthProgress' = GrowthOf(frameCount', growthStartFrame, soilBehavior)
    /\ windTarget' = WindTargetOf(position')
    /\ wind' = lerp(wind, windTarget', WindAmt)
    /\ verticalInfluence' = lerp(verticalInfluence, VerticalTargetOf(position'), SlowAmt)
    /\ contraction' = lerp(contraction, ContractionTarget, SlowAmt)
    /\ IF isDragging
       THEN LET dx == mouseX - dragStart.x
                dy == mouseY - dragStart.y
            IN  worldRotation' =
                    [y |-> Add(worldRotationStart.y, Mul(I(dx), Q(8, 1000))),
                     x |-> constrain(Add(worldRotationStart.x, Mul(I(dy), Q(5, 1000))),
                                     Q(-12, 10), Q(1, 10))]
       ELSE UNCHANGED worldRotation
    /\ scrollTwist' = Mul(scrollTwist, Q(96, 100))
    /\ creatures' = [i \in 1..Len(creatures) |->
                        Update(creatures[i], growthProgress', wind', contraction',
                               verticalInfluence', frameCount')]
    /\ UNCHANGED <<worldRotationStart, previewVars>>

\* p.draw, one frame of the render loop
Draw ==
    /\ frameCount' = frameCount + 1
    /\ position' = PosVec
    /\ soilBreathPhase' = Add(soilBreathPhase, Q(1, 100))
    /\ IF stScene = 1 THEN DrawSoilConfigScene
       ELSE IF stScene = 3 THEN DrawGrowthScene
       ELSE UNCHANGED <<previewVars, windVars, rotVars, scrollTwist, growthProgress,
                        creatures>>
    /\ UNCHANGED <<scene, soilSettings, currentSpecies, effects, stScene, settings,
                   imgVars, soilVars, spawn, loadVars, dragVars, worldZoom, handVars,
                   mouseVars>>

(***************************************************************************)
(* Input handlers.                                                         *)
(***************************************************************************)
VideoW == 320                \* video.size(320, 240)
VideoH == 240

\* variant: the comparison without the factor 1.1
IsFistLikeNoMargin(hand) ==
    LET handSq == (hand.knuckle[1] - hand.wrist[1]) * (hand.knuckle[1] - hand.wrist[1])
                  + (hand.knuckle[2] - hand.wrist[2]) * (hand.knuckle[2] - hand.wrist[2])
        tipSq  == (hand.tip[1] - hand.wrist[1]) * (hand.tip[1] - hand.wrist[1])
                  + (hand.tip[2] - hand.wrist[2]) * (hand.tip[2] - hand.wrist[2])
    IN  tipSq < handSq

\* tipDist < handSize * 1.1, on the squares of the two distances
IsFistLike(hand) ==
    LET handSq == (hand.knuckle[1] - hand.wrist[1]) * (hand.knuckle[1] - hand.wrist[1])
                  + (hand.knuckle[2] - hand.wrist[2]) * (hand.knuckle[2] - hand.wrist[2])
        tipSq  == (hand.tip[1] - hand.wrist[1]) * (hand.tip[1] - hand.wrist[1])
                  + (hand.tip[2] - hand.wrist[2]) * (hand.tip[2] - hand.wrist[2])
    IN  100 * tipSq < 121 * handSq

\* gotHands; predictions is <<>> or <<hand>>, a hand being its landmarks 0, 9, 12
\* gotHands seeding handPos anew whenever the hand was not ready
GotHandsReseed(predictions) ==
    /\ IF Len(predictions) > 0
       THEN LET hand == predictions[1]
                mappedX == pmap(I(hand.knuckle[1]), I(0), I(VideoW), halfW, Neg(halfW))
                mappedY == pmap(I(hand.knuckle[2]), I(0), I(VideoH), Neg(halfH), halfH)
            IN  /\ handPos' = IF handPos = NoHand \/ ~handReady
                              THEN [x |-> mappedX, y |-> mappedY]
                              ELSE [x |-> lerp(handPos.x, mappedX, Q(4, 10)),
                                    y |-> lerp(handPos.y, mappedY, Q(4, 10))]
                /\ isFist' = IsFistLike(hand)
                /\ handReady' = TRUE
       ELSE /\ handReady' = FALSE
            /\ isFist' = FALSE
            /\ UNCHANGED handPos
    /\ UNCHANGED <<scene, soilSettings, currentSpecies, effects, stScene, settings,
                   imgVars, soilVars, popVars, previewVars, loadVars, windVars, rotVars,
                   dragVars, worldZoom, mouseVars, tickVars>>

GotHands(predictions) ==
    /\ IF Len(predictions) > 0
       THEN LET hand == predictions[1]
                mappedX == pmap(I(hand.knuckle[1]), I(0), I(VideoW), halfW, Neg(halfW))
                mappedY == pmap(I(hand.knuckle[2]), I(0), I(VideoH), Neg(halfH), halfH)
            IN  /\ handPos' = IF handPos = NoHand
                              THEN [x |-> mappedX, y |-> mappedY]
                              ELSE [x |-> lerp(handPos.x, mappedX, Q(4, 10)),
                                    y |-> lerp(handPos.y, mappedY, Q(4, 10))]
                /\ isFist' = IsFistLike(hand)
                /\ handReady' = TRUE
       ELSE /\ handReady' = FALSE
            /\ isFist' = FALSE
            /\ UNCHANGED handPos
    /\ UNCHANGED <<scene, soilSettings, currentSpecies, effects, stScene, settings,
                   imgVars, soilVars, popVars, previewVars, loadVars, windVars, rotVars,
                   dragVars, worldZoom, mouseVars, tickVars>>

\* the pointer moves: p.mouseX, p.mouseY
MouseMoved(x, y) ==
    /\ <<x, y>> # <<mouseX, mouseY>>
    /\ mouseX' = x
    /\ mouseY' = y
    /\ UNCHANGED <<scene, soilSettings, currentSpecies, effects, stScene, settings,
                   imgVars, soilVars, popVars, previewVars, loadVars, windVars, rotVars,
                   dragVars, worldZoom, handVars, tickVars>>

\* p.mousePressed
MousePressed ==
    /\ IF stScene = 3
       THEN /\ isDragging' = TRUE
            /\ dragStart' = [x |-> mouseX, y |-> mouseY]
            /\ worldRotationStart' = worldRotation
       ELSE UNCHANGED <<dragVars, worldRotationStart>>
    /\ UNCHANGED <<scene, soilSettings, currentSpecies, effects, stScene, settings,
                   imgVars, soilVars, popVars, previewVars, loadVars, windVars,
                   worldRotation, worldZoom, handVars, mouseVars, tickVars>>

\* p.mouseReleased
MouseReleased ==
    /\ isDragging' = FALSE
    /\ UNCHANGED <<scene, soilSettings, currentSpecies, effects, stScene, settings,
                   imgVars, soilVars, popVars, previewVars, loadVars, windVars, rotVars,
                   dragStart, worldZoom, handVars, mouseVars, tickVars>>

\* variant: the zoom is not constrained
MouseWheelUnclamped(delta) ==
    /\ IF stScene # 3
       THEN UNCHANGED worldZoom
       ELSE worldZoom' = Add(worldZoom, Mul(I(-delta), Q(1, 1000)))
    /\ UNCHANGED <<scene, soilSettings, currentSpecies, effects, stScene, settings,
                   imgVars, soilVars, popVars, previewVars, loadVars, windVars, rotVars,
                   dragVars, handVars, mouseVars, tickVars>>

\* p.mouseWheel
MouseWheel(delta) ==
    /\ IF stScene # 3
       THEN UNCHANGED worldZoom
       ELSE worldZoom' = constrain(Add(worldZoom, Mul(I(-delta), Q(1, 1000))),
                                   Q(5, 10), Q(22, 10))
    /\ UNCHANGED <<scene, soilSettings, currentSpecies, effects, stScene, settings,
                   imgVars, soilVars, popVars, previewVars, loadVars, windVars, rotVars,
                   dragVars, handVars, mouseVars, tickVars>>

(***************************************************************************)
(* The application: intro, upload, configuration, generation, growth.      *)
(* Up to MaxLoads files are chosen and MaxFrame frames are drawn; the      *)
(* pointer rests, no hand is seen, and Math.random takes the outcomes of   *)
(* one seed.                                                               *)
(***************************************************************************)
Files == {[w |-> 720, h |-> 2, pat |-> "white"], [w |-> 720, h |-> 2, pat |-> "sparse"]}

\* slider positions the user moves to
SliderMoves == {<<"spacing", 20>>}

\* species buttons the user clicks
SpeciesClicks == {"torus", "mobius"}

LifeSeeds == {0}

Next ==
    \/ EnterClick
    \/ \E file \in Files : loadsStarted < MaxLoads /\ HandleFileSelect(file)
    \/ \E l \in loads : ImageLoaded(l)
    \/ \E m \in SliderMoves : SetSoilSettings(m[1], m[2])
    \/ \E seed \in LifeSeeds : GenerateClick(seed)
    \/ \E s \in SpeciesClicks : SetCurrentSpecies(s)
    \/ \E seed \in LifeSeeds : RunEffects(seed)
    \/ frameCount < MaxFrame /\ Draw

Spec == Init /\ [][Next]_vars

\* the creatures were made by the last setupCreatures, from the soil points held
PopulationFromCurrentSoil ==
    /\ spawn.gen = soilGen
    /\ Len(creatures) = Len(spawn.used)
    /\ \A i \in 1..Len(creatures) :
        /\ spawn.used[i] + 1 \in 1..Len(soilPoints)
        /\ LET p == soilPoints[spawn.used[i] + 1]
           IN  /\ creatures[i].baseX = p.x
               /\ creatures[i].baseZ = p.y
               /\ creatures[i].baseY = Mul(p.z, Q(15, 10))
               /\ creatures[i].strength = p.n

\* C3: in every reachable state, whatever the interleaving of draw ticks, image
\* loads, generations and species changes, the creatures a draw tick of the
\* growth scene would update and display are exactly those spawned by the last
\* setupCreatures from the soil-point set now held: none is left from an
\* earlier set.
C3_NoStaleCreatures == PopulationFromCurrentSoil

\* C3: a second soil-point set has replaced the first (a second file finished
\* loading after the first generation), and a draw tick has updated its creatures
C3_Witness ==
    /\ soilGen = 2
    /\ stScene = 3
    /\ Len(creatures) > 0
    /\ creatures[1].time # I(0)

(***************************************************************************)
(* Generation on its own.  The configuration screen with an image loaded   *)
(* and settings drawn from GenSettings; the Generate button is pressed     *)
(* once and the effects of the commit run.  maxPoints is a field of        *)
(* SoilSettings; the shipped UI leaves it at its default, the other values *)
(* exercise generateDigitalSoil as a function of its settings.             *)
(***************************************************************************)
\* uploaded files: w x h pixels of one pattern
GenFiles ==
    {[w |-> 720, h |-> h, pat |-> pat] :
        h \in {2, 12}, pat \in {"black", "white", "ramp", "sparse"}}

GenSettings ==
    {[threshold |-> th, dotSize |-> DefaultDotSize, spacing |-> sp, shape |-> "dot",
      maxPoints |-> mp] :
        th \in {0, DefaultThreshold, 255}, sp \in {2, DefaultSpacing, 20},
        mp \in {40, 100, DefaultMaxPoints}}

GenInit ==
    /\ \E file \in GenFiles, s \in GenSettings :
        /\ scene = 1
        /\ soilSettings = s
        /\ currentSpecies = "torus"
        /\ effects = <<>>
        /\ stScene = 1
        /\ settings = s
        /\ sourceG = SourceOf(file)
        /\ imgW = Mul(I(file.w), FitScale(file))
        /\ imgH = Mul(I(file.h), FitScale(file))
        /\ previewDots = <<>>
        /\ previewDirty = TRUE
        /\ loads = {}
        /\ loadsStarted = 1
    /\ InitSoil
    /\ InitLive

GenNext ==
    \/ \E seed \in Seeds : GenerateClick(seed)
    \/ \E seed \in Seeds : RunEffects(seed)

SpecGen == GenInit /\ [][GenNext]_vars

(***************************************************************************)
(* Properties of generation (SpecGen).                                     *)
(***************************************************************************)
Generated == soilGen > 0

\* the dark-image fallback fired in the last generation
FellBack == Generated /\ genInfo.kept < MinSoilPoints

\* the points of the last generation that came from the scan, and the synthetic ones
ScannedIdx == 1..genInfo.kept

SyntheticIdx == (genInfo.kept + 1)..Len(soilPoints)

\* C1, as stated: after a generation the number of soil points is at most
\* settings.maxPoints, on every path (subsampling, dark-image fallback).
C1_AtMostMaxPoints == Generated => Len(soilPoints) <= settings.maxPoints

\* C1, amended: after a generation the scan leaves at most maxPoints points; when
\* the fallback does not fire these are the soil points; when it fires the soil
\* points are the fewer than 50 kept ones plus 120, so at most 169.  The count
\* is therefore at most maxPoints whenever maxPoints >= 169 (the default is 2000).
C1_AtMostMaxPointsOrFallback ==
    Generated =>
        /\ genInfo.kept <= settings.maxPoints
        /\ IF FellBack
           THEN Len(soilPoints) = genInfo.kept + FallbackPoints
           ELSE Len(soilPoints) = genInfo.kept
        /\ Len(soilPoints) <= Max(settings.maxPoints, MinSoilPoints - 1 + FallbackPoints)

\* C1: a generation that subsampled to maxPoints and then fell back
C1_Witness ==
    /\ Generated
    /\ genInfo.scanned > settings.maxPoints
    /\ genInfo.kept = settings.maxPoints
    /\ FellBack

\* C2: after setupCreatures the soil-point indices used are pairwise distinct
\* indices of the point array, one creature is made per index, and the number
\* of creatures is at most the number of points and at most the target count.
C2_DistinctIndices ==
    spawn.gen > 0 =>
        /\ Len(creatures) = Len(spawn.used)
        /\ \A i \in 1..Len(spawn.used) : spawn.used[i] \in 0..(Len(soilPoints) - 1)
        /\ Cardinality({spawn.used[i] : i \in 1..Len(spawn.used)}) = Len(spawn.used)
        /\ Len(creatures) <= Len(soilPoints)
        /\ Len(creatures) <= PlantCount(Len(soilPoints), soilBehavior)

\* C2: a population of several creatures whose indices the shuffle moved
C2_Witness ==
    /\ spawn.gen > 0
    /\ Len(creatures) >= 2
    /\ Len(creatures) < Len(soilPoints)
    /\ \E i \in 1..Len(spawn.used) : spawn.used[i] # i - 1

\* C4, as stated: every soil point, synthetic ones included, has b > threshold
\* and n in [0, 1].
C4_AllAboveThreshold ==
    Generated =>
        \A i \in 1..Len(soilPoints) :
            /\ Less(I(settings.threshold), soilPoints[i].b)
            /\ Leq(I(0), soilPoints[i].n) /\ Leq(soilPoints[i].n, I(1))

\* C4, amended: every soil point has n in [0, 1]; a scanned point has
\* b > threshold and n = (b - threshold) / max(1, 255 - threshold), so that of
\* two scanned points the brighter has the larger n; a synthetic point has
\* b = 255, which is above the threshold except at threshold 255.
C4_ScannedAboveThreshold ==
    Generated =>
        /\ \A i \in 1..Len(soilPoints) :
            Leq(I(0), soilPoints[i].n) /\ Leq(soilPoints[i].n, I(1))
        /\ \A i \in ScannedIdx :
            /\ Less(I(settings.threshold), soilPoints[i].b)
            /\ soilPoints[i].n = Div(Sub(soilPoints[i].b, I(settings.threshold)),
                                     I(Max(1, 255 - settings.threshold)))
        /\ \A i \in ScannedIdx \ {1} :
            /\ Less(soilPoints[i - 1].b, soilPoints[i].b)
                   => Less(soilPoints[i - 1].n, soilPoints[i].n)
            /\ Less(soilPoints[i].b, soilPoints[i - 1].b)
                   => Less(soilPoints[i].n, soilPoints[i - 1].n)
        /\ \A i \in SyntheticIdx :
            /\ soilPoints[i].b = I(255)
            /\ Less(I(settings.threshold), soilPoints[i].b) <=> settings.threshold < 255

\* C4: scanned points of different brightness, below 1 in n, next to synthetic ones
C4_Witness ==
    /\ FellBack
    /\ \E i \in ScannedIdx \ {1} :
        /\ Less(soilPoints[i - 1].b, soilPoints[i].b)
        /\ Less(soilPoints[i].n, I(1))

\* C5: when fewer than 50 points are left after subsampling, exactly 120
\* synthetic points with z = 0, b = 255, n = 1 and a position within the image
\* are added, and otherwise none; a black image gives exactly 120 points, all
\* synthetic; after a generation there are at least 50 points.
C5_Fallback ==
    Generated =>
        /\ Len(soilPoints) = genInfo.kept + (IF FellBack THEN FallbackPoints ELSE 0)
        /\ \A i \in SyntheticIdx :
            /\ soilPoints[i].z = I(0)
            /\ soilPoints[i].b = I(255)
            /\ soilPoints[i].n = I(1)
            /\ Leq(Neg(Div(imgW, I(2))), soilPoints[i].x)
            /\ Leq(soilPoints[i].x, Div(imgW, I(2)))
            /\ Leq(Neg(Div(imgH, I(2))), soilPoints[i].y)
            /\ Leq(soilPoints[i].y, Div(imgH, I(2)))
        /\ sourceG.pat = "black" => genInfo.kept = 0 /\ Len(soilPoints) = FallbackPoints
        /\ Len(soilPoints) >= MinSoilPoints

\* C5: a generation from a black image
C5_Witness == Generated /\ sourceG.pat = "black" /\ Len(soilPoints) = FallbackPoints

\* the count remapped from [50, 1200] to [30, 160], not rounded
Remapped(pointCount) ==
    Add(I(30), Div(Mul(Sub(I(pointCount), I(50)), I(160 - 30)), I(1200 - 50)))

Clamped(v, lo, hi) == IF v < lo THEN lo ELSE IF v > hi THEN hi ELSE v

\* C9, as stated: the number of creatures is
\* floor(remap(pointCount) * densityFactor) clamped to [0, pointCount].
C9_CountUnrounded ==
    spawn.gen > 0 =>
        Len(creatures) =
            Clamped(Floor(Mul(Remapped(Len(soilPoints)), soilBehavior.densityFactor)),
                    0, Len(soilPoints))

\* C9, amended: the number of creatures is
\* floor(floor(remap(pointCount)) * densityFactor) clamped to [0, pointCount]:
\* the remapped count is rounded down before it is scaled by densityFactor.
C9_CountRoundedTwice ==
    spawn.gen > 0 =>
        Len(creatures) =
            Clamped(Floor(Mul(I(Floor(Remapped(Len(soilPoints)))),
                              soilBehavior.densityFactor)),
                    0, Len(soilPoints))

\* C9: a population for which the two roundings give different counts
C9_Witness ==
    /\ spawn.gen > 0
    /\ Len(creatures) > 0
    /\ Len(creatures) <
           Floor(Mul(Remapped(Len(soilPoints)), soilBehavior.densityFactor))

\* the arithmetic mean of n over pts, 0.5 for no points
MeanN(pts) == IF Len(pts) > 0 THEN Div(SumN(pts, 1, Len(pts)), I(Len(pts))) ELSE Q(1, 2)

\* C10, as stated: after a generation avgBrightness is the mean of n over the
\* soil points held, and lies in [0, 1].
C10_AvgIsMean ==
    Generated =>
        /\ soilBehavior.avgBrightness = MeanN(soilPoints)
        /\ Leq(I(0), soilBehavior.avgBrightness)
        /\ Leq(soilBehavior.avgBrightness, I(1))

(***************************************************************************)
(* The growth scene.  A file was loaded, the spacing slider moved and the  *)
(* soil generated at frame SimStartFrame, and SimElapsed frames were drawn *)
(* since with the pointer resting at the bottom centre of the canvas       *)
(* (where all three targets are 0) and no hand seen.  From there SimFrames *)
(* frames are drawn while the pointer moves and hand predictions arrive.   *)
(***************************************************************************)
SimFile == [w |-> 720, h |-> 2, pat |-> "ramp"]

SimSettings ==
    [DefaultSettings EXCEPT !.threshold = SmartThreshold(SourceOf(SimFile)),
                            !.spacing = 20]

RestX == CanvasW \div 2

RestY == CanvasH

SimNow == SimStartFrame + SimElapsed

\* the growth scene after a generation with one of the given species and seeds
SimInitFor(speciesSet, seedSet) ==
    /\ \E species \in speciesSet, seed \in seedSet :
        \E o \in {SoilOf(SourceOf(SimFile), Mul(I(SimFile.w), FitScale(SimFile)),
                         Mul(I(SimFile.h), FitScale(SimFile)), SimSettings, seed)} :
        \E pop \in {SetupCreatures(o.soilPoints, o.soilBehavior, species, seed, 0)} :
        \E g \in {GrowthOf(SimNow, SimStartFrame, o.soilBehavior)} :
            /\ currentSpecies = species
            /\ soilPoints = o.soilPoints
            /\ soilBehavior = o.soilBehavior
            /\ genInfo = [scanned |-> o.scanned, kept |-> o.kept]
            /\ spawn = [gen |-> 1, used |-> pop.used]
            /\ growthProgress = g
            /\ creatures = [i \in 1..Len(pop.creatures) |->
                               Update(pop.creatures[i], g, I(0), I(0), I(0), SimNow)]
    /\ scene = 3
    /\ stScene = 3
    /\ effects = <<>>
    /\ soilSettings = SimSettings
    /\ settings = SimSettings
    /\ sourceG = SourceOf(SimFile)
    /\ imgW = Mul(I(SimFile.w), FitScale(SimFile))
    /\ imgH = Mul(I(SimFile.h), FitScale(SimFile))
    /\ previewDots = PreviewOf(SourceOf(SimFile), SimSettings)
    /\ previewDirty = FALSE
    /\ loads = {}
    /\ loadsStarted = 1
    /\ soilGen = 1
    /\ growthStartFrame = SimStartFrame
    /\ frameCount = SimNow
    /\ soilBreathPhase = Mul(I(SimNow), Q(1, 100))
    /\ mouseX = RestX
    /\ mouseY = RestY
    /\ position = [x |-> Sub(I(RestX), halfW), y |-> Sub(I(RestY), halfH)]
    /\ wind = I(0)
    /\ windTarget = I(0)
    /\ verticalInfluence = I(0)
    /\ contraction = I(0)
    /\ worldRotation = [x |-> Q(-6, 10), y |-> I(0)]
    /\ worldRotationStart = [x |-> Q(-6, 10), y |-> I(0)]
    /\ worldZoom = I(1)
    /\ isDragging = FALSE
    /\ dragStart = [x |-> 0, y |-> 0]
    /\ scrollTwist = I(0)

\* no gesture callback has run
HandUnseen ==
    /\ handPos = NoHand
    /\ handReady = FALSE
    /\ isFist = FALSE

SimInit == SimInitFor(Species, Seeds) /\ HandUnseen

\* where the pointer moves to
MousePositions == {<<RestX, RestY>>, <<900, 0>>}

\* hand predictions: landmarks 0 (wrist), 9 (middle knuckle), 12 (middle tip)
OpenHand == [wrist |-> <<160, 200>>, knuckle |-> <<160, 120>>, tip |-> <<160, 40>>]

ClosedHand == [wrist |-> <<160, 200>>, knuckle |-> <<160, 120>>, tip |-> <<160, 130>>]

Predictions == {<<>>, <<OpenHand>>, <<ClosedHand>>}

SimNext ==
    \/ frameCount < SimNow + SimFrames /\ Draw
    \/ \E pos \in MousePositions : MouseMoved(pos[1], pos[2])
    \/ \E predictions \in Predictions : GotHands(predictions)

SpecSim == SimInit /\ [][SimNext]_vars

(***************************************************************************)
(* Properties of the growth scene (SpecSim).                               *)
(***************************************************************************)
\* the fields Creature.update assigns
StoredFields == {"growth", "wind", "contraction", "verticalInf", "time"}

\* arguments update is tried with: <<growth, wind, contraction, verticalInf, frame>>
UpdateInputs ==
    {<<g, Q(-1, 3), c, Q(3, 4), f>> : g \in {I(0), Q(1, 2)}, c \in {I(0), I(1)}, f \in {0, 7}}

\* C6: for every creature of the population (each of the four variants) and all
\* arguments, update stores growth, wind, contraction and verticalInf as given
\* and time = frame * 0.03, leaves every other field as it was, and a second
\* update with the same arguments changes nothing; after a draw tick of the
\* growth scene the stored values are those of the tick.
C6_UpdateStoresInputs ==
    \A i \in 1..Len(creatures) :
        /\ creatures[i].growth = growthProgress
        /\ creatures[i].wind = wind
        /\ creatures[i].contraction = contraction
        /\ creatures[i].verticalInf = verticalInfluence
        /\ creatures[i].time = Mul(I(frameCount), Q(3, 100))
        /\ \A a \in UpdateInputs :
            LET c == creatures[i]
                u == Update(c, a[1], a[2], a[3], a[4], a[5])
            IN  /\ u.growth = a[1]
                /\ u.wind = a[2]
                /\ u.contraction = a[3]
                /\ u.verticalInf = a[4]
                /\ u.time = Mul(I(a[5]), Q(3, 100))
                /\ DOMAIN u = DOMAIN c
                /\ \A k \in DOMAIN c \ StoredFields : u[k] = c[k]
                /\ Update(u, a[1], a[2], a[3], a[4], a[5]) = u

\* C6: a PrismSpire that draw ticks have updated with a wind and a contraction
C6_Witness ==
    /\ frameCount > SimNow
    /\ \E i \in 1..Len(creatures) :
        /\ creatures[i].kind = "PrismSpire"
        /\ creatures[i].wind # I(0)
        /\ creatures[i].contraction # I(0)
        /\ creatures[i].segments > 0

\* C7, as stated: the draw calls display issues for a creature are the same
\* whatever the renderer's frame counter is: they depend on the creature's
\* stored state and spawn-time parameters only.
C7_DisplayIgnoresFrameCounter ==
    \A i \in 1..Len(creatures) :
        \A pFrameCount \in {0, frameCount + 1} :
            Display(creatures[i], pFrameCount) = Display(creatures[i], frameCount)

\* a draw tick of the growth scene
GrowthTick == stScene = 3 /\ frameCount' = frameCount + 1

\* from v to w, the distance to target shrinks by the factor keep, on the same side
Approaches(v, w, target, keep) ==
    /\ Sub(w, target) = Mul(keep, Sub(v, target))
    /\ Leq(v, target) => Leq(v, w) /\ Leq(w, target)
    /\ Leq(target, v) => Leq(target, w) /\ Leq(w, v)

\* C8: on every draw tick of the growth scene each smoothed value moves toward
\* the tick's target without crossing it, and its distance to the target
\* shrinks by exactly 0.95 (wind) or 0.9 (verticalInfluence, contraction); over
\* k ticks with the same target the distance is therefore 0.95^k or 0.9^k of
\* what it was, which falls below every eps > 0.
C8_SmoothingStep ==
    [][GrowthTick =>
        /\ Approaches(wind, wind', windTarget', Q(95, 100))
        /\ Approaches(verticalInfluence, verticalInfluence',
                      VerticalTargetOf(position'), Q(9, 10))
        /\ Approaches(contraction, contraction', ContractionTarget, Q(9, 10))]_vars

\* C8: two ticks in a row with the targets of the pointer at the top right:
\* wind = 1 - 0.95^2 and verticalInfluence = 1 - 0.9^2 of the way from 0 to 1
C8_Witness ==
    /\ frameCount = SimNow + 2
    /\ windTarget = I(1)
    /\ wind = Q(39, 400)
    /\ verticalInfluence = Q(19, 100)

(***************************************************************************)
(* The configuration screen on its own.  An image has been loaded (its     *)
(* threshold set by the auto-threshold), the sliders are moved and frames  *)
(* are drawn.                                                              *)
(***************************************************************************)
MaxPrevFrames == 2           \* frames drawn on the configuration screen

\* uploaded files: 900 x 30 pixels, drawn into a 720 x 24 bitmap
PrevFiles == {[w |-> 900, h |-> 30, pat |-> pat] : pat \in {"white", "ramp"}}

\* slider positions the user moves to
PrevMoves == {<<"threshold", 100>>, <<"spacing", 2>>, <<"dotSize", 2>>}

\* the configuration screen after the load of one of the given files
ConfigShell(files) ==
    /\ \E file \in files :
        \E s \in {[DefaultSettings EXCEPT !.threshold = SmartThreshold(SourceOf(file))]} :
            /\ soilSettings = s
            /\ settings = s
            /\ sourceG = SourceOf(file)
            /\ imgW = Mul(I(file.w), FitScale(file))
            /\ imgH = Mul(I(file.h), FitScale(file))
    /\ scene = 1
    /\ stScene = 1
    /\ currentSpecies = "torus"
    /\ effects = <<>>
    /\ previewDots = <<>>
    /\ previewDirty = TRUE
    /\ loads = {}
    /\ loadsStarted = 1
    /\ InitSoil

ConfigInit(files) == ConfigShell(files) /\ InitLive

PrevInit == ConfigInit(PrevFiles)

PrevNext ==
    \/ \E m \in PrevMoves : SetSoilSettings(m[1], m[2])
    \/ \E seed \in LifeSeeds : RunEffects(seed)
    \/ frameCount < MaxPrevFrames /\ Draw

SpecPreview == PrevInit /\ [][PrevNext]_vars

\* dots is the row-major scan of bitmap g under settings st: every dot sits on
\* a grid cell that passes both tests, the cells of successive dots come in scan
\* order, no passing cell before the last dot is left out, and the sequence
\* stops early only at the cap
IsPreviewScan(dots, g, st) ==
    LET step == Max(1, st.spacing)
        cols == GridCount(g.width, step)
        N == cols * GridCount(g.height, step)
        Lum(k) == LET c == ScanCell(g, step, k) IN Bright(g, c[1], c[2])
        Rad(k) == Mul(Div(Sub(Lum(k), I(st.threshold)),
                          I(Max(1, 255 - st.threshold))), I(st.dotSize))
        Passes(k) == Less(I(st.threshold), Lum(k)) /\ Less(Q(3, 10), Rad(k))
        \* the scan index of the cell a dot sits on (0 if it sits on none)
        CellIdx(d) ==
            LET px == Add(d.x, Q(g.width, 2))
                py == Add(d.y, Q(g.height, 2))
            IN  IF /\ px[2] = 1 /\ py[2] = 1
                   /\ px[1] \in 0..(g.width - 1) /\ py[1] \in 0..(g.height - 1)
                   /\ px[1] % step = 0 /\ py[1] % step = 0
                THEN (py[1] \div step) * cols + (px[1] \div step) + 1
                ELSE 0
    IN  \E idx \in {[m \in 1..Len(dots) |-> CellIdx(dots[m])]} :
        \E passing \in {{k \in 1..N : Passes(k)}} :
            /\ Len(dots) = Min(Cardinality(passing), 4000)
            /\ \A m \in 1..Len(dots) :
                /\ idx[m] \in passing
                /\ dots[m].size = Rad(idx[m])
                /\ m > 1 => idx[m - 1] < idx[m]
            /\ Len(dots) > 0 =>
                   Cardinality({k \in passing : k <= idx[Len(dots)]}) = Len(dots)

\* the scenario: a 100 x 100 bitmap of luminance 200, threshold 100, spacing 10
ScenarioBitmap == [width |-> 100, height |-> 100, pat |-> "grey200"]

ScenarioSettings ==
    [DefaultSettings EXCEPT !.threshold = 100, !.spacing = 10, !.dotSize = 8]

\* C11: once a draw tick of the configuration screen has recomputed the
\* preview, previewDots is the row-major scan (y outer, x inner, stride
\* max(1, spacing)) of the pixels with luminance > threshold and radius > 0.3,
\* each at (x - W/2, y - H/2) with size = radius, cut to its first 4000 entries
\* in scan order; and for a 100 x 100 bitmap of luminance 200 with threshold
\* 100, spacing 10 and dotSize 8 recomputePreviewDots gives exactly 100 dots.
C11_PreviewIsScan ==
    /\ Len(previewDots) <= 4000
    /\ (sourceG # NoImage /\ ~previewDirty) => IsPreviewScan(previewDots, sourceG, settings)
    /\ \E dots \in {PreviewOf(ScenarioBitmap, ScenarioSettings)} :
        /\ Len(dots) = 100
        /\ IsPreviewScan(dots, ScenarioBitmap, ScenarioSettings)
        /\ \A m \in 1..100 : dots[m].size = Q(100 * 8, 155)

\* C11: a preview has been recomputed from a scan with more than 4000 passing
\* pixels, and was cut at the cap
C11_Witness ==
    /\ stScene = 1
    /\ ~previewDirty
    /\ Len(previewDots) = 4000
    /\ Len(ScanHits(sourceG, Max(1, settings.spacing), settings.threshold)) > 4000

(***************************************************************************)
(* The growth scene under gesture callbacks.  The hands seen have their    *)
(* wrist at (0, 0) and their middle knuckle at (0, 10) of the video frame  *)
(* and differ in the middle fingertip.                                     *)
(***************************************************************************)
\* wrist (0,0), knuckle (0,10), tip (0,8): handSize 10, tipDist 8
ScenarioHand == [wrist |-> <<0, 0>>, knuckle |-> <<0, 10>>, tip |-> <<0, 8>>]

\* tipDist = sqrt(109), between handSize and 1.1 * handSize = 11
NearFist == [wrist |-> <<0, 0>>, knuckle |-> <<0, 10>>, tip |-> <<3, 10>>]

\* tipDist = sqrt(125), above 11
NearOpen == [wrist |-> <<0, 0>>, knuckle |-> <<0, 10>>, tip |-> <<5, 10>>]

HandPredictions == {<<>>, <<ScenarioHand>>, <<NearFist>>, <<NearOpen>>}

HandNext ==
    \/ frameCount < SimNow + SimFrames /\ Draw
    \/ \E pos \in MousePositions : MouseMoved(pos[1], pos[2])
    \/ \E predictions \in HandPredictions : GotHands(predictions)

SpecHand == SimInit /\ [][HandNext]_vars

\* the square of the distance between two landmarks in the video plane
Dist2(a, b) == (a[1] - b[1]) * (a[1] - b[1]) + (a[2] - b[2]) * (a[2] - b[2])

\* C12: a gesture callback with at least one prediction leaves isFist true
\* exactly when dist(landmark 12, landmark 0) < 1.1 * dist(landmark 9,
\* landmark 0) (on the squares: 100 * tip^2 < 121 * knuckle^2), so the hand
\* wrist (0,0), knuckle (0,10), tip (0,8) gives true; a callback with no
\* prediction leaves isFist false.
C12_FistRule ==
    [][\A pr \in HandPredictions :
          GotHands(pr) =>
              /\ pr = <<>> => ~isFist'
              /\ pr # <<>> =>
                    (isFist' <=> 100 * Dist2(pr[1].tip, pr[1].wrist)
                                   < 121 * Dist2(pr[1].knuckle, pr[1].wrist))
              /\ pr = <<ScenarioHand>> => isFist'
              /\ pr = <<NearFist>> => isFist'
              /\ pr = <<NearOpen>> => ~isFist']_vars

\* C12: a callback has seen a closed hand, and a draw tick has used it
C12_Witness ==
    /\ handReady
    /\ isFist
    /\ handPos # NoHand
    /\ Less(I(0), contraction)

(***************************************************************************)
(* Pointer, drag and wheel.  The growth scene (and the configuration       *)
(* screen, where the handlers leave the camera alone) while the pointer    *)
(* moves inside and outside the canvas, the button is pressed and          *)
(* released, and the wheel turns.                                          *)
(***************************************************************************)
\* where the pointer moves to: the rest position, and a position half a canvas
\* right of the canvas and 200 below it
CamPositions == {<<RestX, RestY>>, <<CanvasW + CanvasW \div 2, CanvasH + 200>>}

\* event.delta of the wheel events
WheelDeltas == {-1500, 1500}

CamInit == (SimInitFor({"torus"}, {0}) /\ HandUnseen) \/ PrevInit

CamNext ==
    \/ frameCount < (IF stScene = 3 THEN SimNow + SimFrames ELSE MaxPrevFrames) /\ Draw
    \/ \E pos \in CamPositions : MouseMoved(pos[1], pos[2])
    \/ MousePressed
    \/ MouseReleased
    \/ \E delta \in WheelDeltas : MouseWheel(delta)

SpecCam == CamInit /\ [][CamNext]_vars

\* lo <= v <= hi
Within(v, lo, hi) == Leq(lo, v) /\ Leq(v, hi)

\* C13, as stated: in every reachable state, wherever the pointer is, wind and
\* windTarget are in [-1, 1] and verticalInfluence and contraction are in [0, 1].
C13_InteractionRanges ==
    /\ Within(wind, I(-1), I(1))
    /\ Within(windTarget, I(-1), I(1))
    /\ Within(verticalInfluence, I(0), I(1))
    /\ Within(contraction, I(0), I(1))

(***************************************************************************)
(* Growth progress and the population (Spec).                              *)
(***************************************************************************)
\* the population has been spawned and no draw tick has updated it yet (update
\* stores time = frame * 0.03 with frame >= 1; the constructor leaves time 0)
FreshPopulation ==
    /\ stScene = 3
    /\ Len(creatures) > 0
    /\ \A i \in 1..Len(creatures) : creatures[i].time = I(0)

\* C14, as stated: every spawn of a population, by soil generation or by a
\* species change, restarts the elapsed-tick count of growthProgress, so a
\* population that has just been spawned starts from growthProgress 0.
C14_SpawnRestartsGrowth == FreshPopulation => growthProgress = I(0)

(***************************************************************************)
(* The growth scene after the gesture callbacks have stopped.  The last    *)
(* callback saw the closed hand ScenarioHand; from then on frames are      *)
(* drawn and the mouse is moved, pressed and released, and no callback     *)
(* arrives.                                                                *)
(***************************************************************************)
StaleInit ==
    /\ SimInitFor(Species, {0})
    /\ handPos = [x |-> pmap(I(ScenarioHand.knuckle[1]), I(0), I(VideoW), halfW, Neg(halfW)),
                  y |-> pmap(I(ScenarioHand.knuckle[2]), I(0), I(VideoH), Neg(halfH), halfH)]
    /\ handReady = TRUE
    /\ isFist = TRUE

StaleNext ==
    \/ frameCount < SimNow + SimFrames /\ Draw
    \/ \E pos \in MousePositions : MouseMoved(pos[1], pos[2])
    \/ MousePressed
    \/ MouseReleased

SpecStale == StaleInit /\ [][StaleNext]_vars

\* C15, as stated, for an observation that is SimFrames ticks old: once that
\* many draw ticks have run without a gesture callback, the position fed to
\* the interaction mapping is a mouse position, not the hand position, and the
\* contraction target of the last tick was 0 (contraction is at most what two
\* ticks toward 1 and one toward 0 give: 0.171).
C15_StaleHandFallsBack ==
    frameCount >= SimNow + SimFrames =>
        /\ position # handPos
        /\ \E pos \in MousePositions :
              position = [x |-> Sub(I(pos[1]), halfW), y |-> Sub(I(pos[2]), halfH)]
        /\ Leq(contraction, Q(171, 1000))

\* the interaction state has its initial value
InteractionAtRest ==
    /\ wind = I(0)
    /\ windTarget = I(0)
    /\ verticalInfluence = I(0)
    /\ contraction = I(0)
    /\ worldRotation = [x |-> Q(-6, 10), y |-> I(0)]
    /\ worldZoom = I(1)
    /\ isDragging = FALSE

\* the configuration screen entered from the intro, or the growth scene entered
\* by a generation that no growth tick has followed yet
SceneJustEntered ==
    \/ stScene = 1 /\ soilGen = 0
    \/ stScene = 3 /\ growthProgress = I(0)

\* C16, as stated: immediately after a scene transition (idle -> configuring,
\* configuring -> growing) wind, windTarget, verticalInfluence and contraction
\* are 0, worldRotation is {x: -0.6, y: 0}, worldZoom is 1 and isDragging is
\* false, whatever happened before.
C16_TransitionResets == SceneJustEntered => InteractionAtRest

(***************************************************************************)
(* The configuration screen with a bitmap that has no pixels.  A 900 x 1   *)
(* file is scaled by 0.8 and drawn into a bitmap of floor(720) x           *)
(* floor(0.8) = 720 x 0 pixels, whose pixel buffer has length 0.           *)
(***************************************************************************)
EmptyFiles == {[w |-> 900, h |-> 1, pat |-> "white"]}

NotReadyNext ==
    \/ \E m \in PrevMoves : SetSoilSettings(m[1], m[2])
    \/ \E seed \in Seeds : GenerateClick(seed)
    \/ \E seed \in Seeds : RunEffects(seed)
    \/ frameCount < MaxPrevFrames /\ Draw

NotReadyInit == ConfigInit(EmptyFiles)

SpecNotReady == NotReadyInit /\ [][NotReadyNext]_vars

\* pixels.length of a bitmap, at pixel density 1
PixelsLength(g) == 4 * Max(0, g.width) * Max(0, g.height)

\* C17, as stated, for a bitmap whose pixel buffer has length 0: generation
\* triggers and preview recomputations leave soilPoints, previewDots,
\* soilBehavior, creatures, growthStartFrame and the scene as they were (as
\* they are on the configuration screen after the load).
C17_NotReadyIsNoOp ==
    PixelsLength(sourceG) = 0 =>
        /\ soilPoints = <<>>
        /\ previewDots = <<>>
        /\ soilBehavior = DefaultBehavior
        /\ creatures = <<>>
        /\ growthStartFrame = 0
        /\ scene = 1

(***************************************************************************)
(* Species changes.  From the configuration screen with an image loaded:   *)
(* a slider is moved, the soil is generated, the four species buttons are  *)
(* clicked and frames are drawn.                                           *)
(***************************************************************************)
SpeciesInit == ConfigInit(Files)

SpeciesNext ==
    \/ \E m \in SliderMoves : SetSoilSettings(m[1], m[2])
    \/ \E seed \in LifeSeeds : GenerateClick(seed)
    \/ \E s \in Species : SetCurrentSpecies(s)
    \/ \E seed \in LifeSeeds : RunEffects(seed)
    \/ frameCount < MaxFrame /\ Draw

SpecSpecies == SpeciesInit /\ [][SpeciesNext]_vars

\* the class setupCreatures instantiates for a species tag
VariantOf(species) ==
    CASE species = "torus"  -> "NeonTorus"
      [] species = "mobius" -> "FluxRibbon"
      [] species = "knot"   -> "TensorCore"
      [] species = "hopf"   -> "PrismSpire"

\* the simulation state apart from the population
SoilState == <<soilPoints, soilBehavior, growthStartFrame, growthProgress>>

\* C18: when the effects of a commit run, the soil points and the behaviour
\* profile stay as they are; if the commit changed the species in the growth
\* scene, creatures becomes a new array of creatures just constructed (growth 0,
\* time 0), one per plant of the profile, each of the variant of the species
\* selected (torus -> NeonTorus, mobius -> FluxRibbon, knot -> TensorCore,
\* hopf -> PrismSpire); if the commit is not of the growth scene, the
\* population and the rest of the simulation state stay as they are.
C18_SpeciesChangeRespawns ==
    [][(effects # <<>> /\ effects' = Tail(effects)) =>
        LET c == Head(effects)
        IN  /\ UNCHANGED <<soilPoints, soilBehavior>>
            /\ ("currentSpecies" \in c.deps /\ c.scene = 3) =>
                  /\ Len(creatures') =
                        Min(PlantCount(Len(soilPoints), soilBehavior), Len(soilPoints))
                  /\ \A i \in 1..Len(creatures') :
                        /\ creatures'[i].kind = VariantOf(c.currentSpecies)
                        /\ creatures'[i].growth = I(0)
                        /\ creatures'[i].time = I(0)
                        /\ \A j \in 1..Len(creatures) : creatures'[i] # creatures[j]
            /\ c.scene # 3 => UNCHANGED <<creatures, SoilState>>]_vars

\* C18: the species was changed to mobius in the growth scene after a tick had
\* grown the first population, and the effect has spawned the new one
C18_Witness ==
    /\ stScene = 3
    /\ effects = <<>>
    /\ currentSpecies = "mobius"
    /\ Less(I(0), growthProgress)
    /\ Len(creatures) > 0
    /\ \A i \in 1..Len(creatures) :
          creatures[i].kind = "FluxRibbon" /\ creatures[i].time = I(0)

(***************************************************************************)
(* Properties of the camera (SpecCam).                                     *)
(***************************************************************************)
\* v limited to [lo, hi]
ClampTo(v, lo, hi) == IF Less(v, lo) THEN lo ELSE IF Less(hi, v) THEN hi ELSE v

\* C19: after any sequence of press, release, move, wheel and draw-tick events
\* worldZoom is in [0.5, 2.2] and worldRotation.x in [-1.2, 0.1]; a press in
\* the growth scene records the pointer position and the rotation; while
\* dragging, each growth-scene tick sets worldRotation.y = worldRotationStart.y
\* + dx * 0.008 and worldRotation.x = clamp(worldRotationStart.x + dy * 0.005,
\* -1.2, 0.1), dx and dy measured from the press position; each wheel event in
\* the growth scene sets worldZoom = clamp(worldZoom - delta * 0.001, 0.5, 2.2),
\* and outside the growth scene press and wheel change nothing.
C19_Camera ==
    /\ [](Within(worldZoom, Q(1, 2), Q(22, 10)) /\ Within(worldRotation.x, Q(-12, 10), Q(1, 10)))
    /\ [][/\ (GrowthTick /\ isDragging) =>
               /\ worldRotation'.y =
                     Add(worldRotationStart.y, Q(8 * (mouseX - dragStart.x), 1000))
               /\ worldRotation'.x =
                     ClampTo(Add(worldRotationStart.x, Q(5 * (mouseY - dragStart.y), 1000)),
                             Q(-12, 10), Q(1, 10))
          /\ (frameCount' = frameCount + 1 /\ ~(stScene = 3 /\ isDragging)) =>
               UNCHANGED worldRotation
          /\ (MousePressed /\ stScene = 3) =>
               /\ isDragging'
               /\ dragStart' = [x |-> mouseX, y |-> mouseY]
               /\ worldRotationStart' = worldRotation
          /\ (MousePressed /\ stScene # 3) => UNCHANGED <<dragVars, rotVars>>
          /\ MouseReleased => ~isDragging'
          /\ \A delta \in WheelDeltas :
               MouseWheel(delta) =>
                   worldZoom' = IF stScene = 3
                                THEN ClampTo(Sub(worldZoom, Q(delta, 1000)), Q(1, 2), Q(22, 10))
                                ELSE worldZoom]_vars

\* C19: a drag is under way whose tilt was limited at 0.1 and whose spin was
\* not limited, and the wheel has been limited at 2.2
C19_Witness ==
    /\ stScene = 3
    /\ isDragging
    /\ worldRotation.x = Q(1, 10)
    /\ worldRotation.y = Q(72, 10)
    /\ worldZoom = Q(22, 10)

(***************************************************************************)
(* Growth over time.  From the configuration screen of one uploaded image  *)
(* the threshold slider is moved to either end of its range (line 691),    *)
(* the soil is generated, and the render loop of p5 keeps drawing frames:  *)
(* GrowTicks of them in the growth scene, enough for the slowest           *)
(* growthSpeed (0.8 at threshold 0, 250 frames) to complete.  p5 calls     *)
(* p.draw on every animation frame, so a frame that can be drawn is drawn. *)
(***************************************************************************)
GrowTicks == 252

GrowThresholds == {0, 255}

\* the pointer rests at the bottom centre of the canvas, where the targets of
\* wind and verticalInfluence are the values both start from
GrowInit ==
    /\ ConfigShell({[w |-> 720, h |-> 2, pat |-> "white"]})
    /\ InitInteraction
    /\ mouseX = RestX
    /\ mouseY = RestY

\* the frame counter over one frame of the render loop
GrowFrame ==
    /\ frameCount < (IF stScene = 3 THEN growthStartFrame + GrowTicks ELSE MaxPrevFrames)
    /\ frameCount' = frameCount + 1

GrowDraw == GrowFrame /\ Draw

GrowNext ==
    \/ \E t \in GrowThresholds : SetSoilSettings("threshold", t)
    \/ \E seed \in LifeSeeds : GenerateClick(seed)
    \/ \E seed \in LifeSeeds : RunEffects(seed)
    \/ GrowDraw

\* p.draw has no guard and is the only step that moves the frame counter, so
\* fairness of the frame counter is fairness of GrowDraw
SpecGrow == GrowInit /\ [][GrowNext]_vars /\ WF_frameCount(GrowFrame)

\* C20: after a soil generation and until the next one, growthProgress is in
\* [0,1] at every moment, no tick of the growth scene lowers it and nothing
\* but a tick changes it, and with frames being drawn it reaches 1 and stays 1.
C20_GrowthCompletes ==
    /\ [](Within(growthProgress, I(0), I(1)))
    /\ [][soilGen' = soilGen =>
            IF GrowthTick THEN Leq(growthProgress, growthProgress')
            ELSE growthProgress' = growthProgress]_vars
    /\ [](stScene = 3 => <>[](growthProgress = I(1)))

\* the slowest growth, complete only after 250 frames
C20_Witness ==
    /\ stScene = 3
    /\ soilBehavior.growthSpeed = Q(8, 10)
    /\ frameCount = growthStartFrame + 250
    /\ growthProgress = I(1)
    /\ Len(creatures) > 0

(***************************************************************************)
(* Preview coherence over the whole lifecycle: uploads, slider moves, the  *)
(* effects that copy soilSettings into stateRef, and draw ticks.           *)
(***************************************************************************)
\* a draw tick of the configuration scene
ConfigTick == stScene = 1 /\ frameCount' = frameCount + 1

\* C21: a draw tick of the configuration scene that ends with an image whose
\* pixel buffer is not empty leaves previewDots equal to the preview of the
\* current bitmap under the current state.settings; the effect of soilSettings
\* and every image load set previewDirty; previewDirty is cleared only by such
\* a tick, which has recomputed the preview; so whenever the flag is clear and
\* an image is present the preview shown is the one of the current settings.
C21_PreviewCoherent ==
    /\ [][(ConfigTick /\ sourceG' # NoImage /\ PixelsLength(sourceG') > 0) =>
            /\ previewDots' = PreviewOf(sourceG', settings')
            /\ ~previewDirty']_vars
    /\ [][(effects # <<>> /\ effects' = Tail(effects)
            /\ "soilSettings" \in Head(effects).deps) =>
            settings' = Head(effects).soilSettings /\ previewDirty']_vars
    /\ [][(settings' # settings \/ sourceG' # sourceG) => previewDirty']_vars
    /\ [][(previewDirty /\ ~previewDirty') =>
            /\ ConfigTick
            /\ sourceG # NoImage
            /\ previewDots' = PreviewOf(sourceG, settings)
            /\ UNCHANGED <<sourceG, settings>>]_vars
    /\ []((sourceG # NoImage /\ ~previewDirty) =>
            previewDots = PreviewOf(sourceG, settings))

\* a second upload and a slider move have both been taken up by a tick of the
\* configuration scene: the preview is the one of the new bitmap and settings
C21_Witness ==
    /\ stScene = 1
    /\ loadsStarted = MaxLoads
    /\ loads = {}
    /\ effects = <<>>
    /\ settings.spacing = 20
    /\ ~previewDirty
    /\ previewDots # <<>>
    /\ previewDots = PreviewOf(sourceG, settings)

(***************************************************************************)
(* Losing and finding the hand again.  The callbacks see no hand, or a     *)
(* hand whose middle knuckle is at the centre of the video frame (OpenHand,*)
(* ClosedHand) or near its top left corner (ScenarioHand, NearFist,        *)
(* NearOpen), in any order and between any two frames.  A callback is      *)
(* followed while the smoothed position is a fraction with a denominator   *)
(* of at most MaxHandDen.                                                  *)
(***************************************************************************)
MaxHandDen == 1

RedetectInit == SimInitFor({"torus"}, {0}) /\ HandUnseen

RedetectNext ==
    \/ frameCount < SimNow + SimFrames /\ Draw
    \/ \E predictions \in Predictions \cup HandPredictions :
          /\ handPos.x[2] <= MaxHandDen
          /\ handPos.y[2] <= MaxHandDen
          /\ GotHands(predictions)

SpecRedetect == RedetectInit /\ [][RedetectNext]_vars

\* where gotHands maps the middle knuckle of a hand
MappedKnuckle(hand) ==
    [x |-> Sub(halfW, Mul(Q(hand.knuckle[1], VideoW), I(CanvasW))),
     y |-> Sub(Mul(Q(hand.knuckle[2], VideoH), I(CanvasH)), halfH)]

\* C22: in every state isFist implies handReady and handReady implies that
\* handPos is set; no step unsets handPos; a callback that sees a hand seeds
\* handPos with the mapped knuckle only if handPos was never set, and otherwise
\* moves it 0.4 of the way from where it was, whether or not the hand had
\* been lost in between; nothing but such a callback moves handPos.
C22_HandState ==
    /\ [](isFist => handReady)
    /\ [](handReady => handPos # NoHand)
    /\ [][handPos # NoHand => handPos' # NoHand]_vars
    /\ [][\A pr \in Predictions \cup HandPredictions :
            GotHands(pr) =>
                IF pr = <<>> THEN handPos' = handPos /\ ~handReady' /\ ~isFist'
                ELSE /\ handReady'
                     /\ LET to == MappedKnuckle(pr[1])
                        IN  handPos' =
                                IF handPos = NoHand THEN to
                                ELSE [x |-> Add(handPos.x,
                                                Mul(Q(4, 10), Sub(to.x, handPos.x))),
                                      y |-> Add(handPos.y,
                                                Mul(Q(4, 10), Sub(to.y, handPos.y)))]]_vars
    /\ [][frameCount' # frameCount => handPos' = handPos]_vars

\* the hand is held again after having been seen elsewhere: its position lies
\* strictly between the two knuckle positions
C22_Witness ==
    /\ handReady
    /\ isFist
    /\ handPos # NoHand
    /\ Less(I(0), handPos.x)
    /\ Less(handPos.x, MappedKnuckle(ScenarioHand).x)
    /\ position = handPos

====
